---- MODULE Spec2Model ----
(***************************************************************************)
(* niconico-mylist-rs: the mylist client of src/lib.rs.                    *)
(*                                                                         *)
(* The serde data model (decoders and encoders of the response types), the *)
(* status/decoding discipline of get_my_mylists and get_mylist, and the    *)
(* pagination loop of get_mylist_all, run against a nondeterministic       *)
(* server and a reqwest cookie store shared by reference (Arc).            *)
(***************************************************************************)
EXTENDS Integers, Sequences, FiniteSets, TLC

\* ------------------------------------------------------------------ bounds
\* Pages one get_mylist_all call may request before the model stops it.
MaxPages == 3
\* Largest sampleItemCount a caller passes to get_my_mylists.
MaxSample == 1
\* Largest page number a caller passes to get_mylist directly.
MaxDirectPage == 2

\* ------------------------------------------------------- program constants
\* get_mylist_all's fixed page size and first page; the loop's first page.
PageSizeAll == 100
FirstPage == 1
SecondPage == 2
\* The greatest HTTP status that is decoded as a success envelope.
MaxSuccessStatus == 299

\* ------------------------------------------------------------- Rust values
Ok(v) == [kind |-> "Ok", val |-> v]
Err(e) == [kind |-> "Err", err |-> e]
None == [some |-> FALSE]
Some(v) == [some |-> TRUE, v |-> v]

\* enum Error
ErrorHttp(at) == [type |-> "Http", at |-> at]
ErrorJson == [type |-> "Json"]
ErrorStatus(nico_error) == [type |-> "Status", err |-> nico_error]

\* ------------------------------------------------------------- JSON values
\* A JSON object is a function from its keys to its values, a JSON array a
\* sequence.  null, a nullable string and a body that is no JSON at all are
\* tagged records, so that every value met where an object is expected can be
\* asked for its keys.
JNull == [jnull |-> TRUE]
JStr(s) == [jstr |-> s]
NotJson == [notjson |-> TRUE]
IsObject(j) == DOMAIN j \cap {"jnull", "jstr", "notjson"} = {}
HasKeys(j, keys) == IsObject(j) /\ keys \subseteq DOMAIN j

\* ------------------------------------------------------ serde: Deserialize
\* NicoMeta: rename_all = camelCase; error_code is an Option, so a missing or
\* null errorCode decodes to None.
DecodeNicoMeta(j) ==
    IF HasKeys(j, {"status"})
    THEN Ok([status |-> j["status"],
             error_code |-> IF "errorCode" \in DOMAIN j /\ j["errorCode"] # JNull
                            THEN Some(j["errorCode"].jstr)
                            ELSE None])
    ELSE Err(ErrorJson)

\* NicoError: meta only; unknown keys (a data member) are ignored.
DecodeNicoError(j) ==
    IF HasKeys(j, {"meta"}) /\ DecodeNicoMeta(j["meta"]).kind = "Ok"
    THEN Ok([meta |-> DecodeNicoMeta(j["meta"]).val])
    ELSE Err(ErrorJson)

\* Video: the wire names of video_type, n_9d091f87 and n_acf68865 are given by
\* rename(deserialize = ...), the others by rename_all = camelCase.
DecodeVideo(j) ==
    IF HasKeys(j, {"type", "id", "registeredAt", "9d091f87", "acf68865"})
    THEN Ok([video_type |-> j["type"],
             id |-> j["id"],
             registered_at |-> j["registeredAt"],
             n_9d091f87 |-> j["9d091f87"],
             n_acf68865 |-> j["acf68865"]])
    ELSE Err(ErrorJson)

\* Item
DecodeItem(j) ==
    IF HasKeys(j, {"itemId", "video"}) /\ DecodeVideo(j["video"]).kind = "Ok"
    THEN Ok([item_id |-> j["itemId"], video |-> DecodeVideo(j["video"]).val])
    ELSE Err(ErrorJson)

\* Vec<Item>
DecodeItems(js) ==
    IF \A i \in 1..Len(js) : DecodeItem(js[i]).kind = "Ok"
    THEN Ok([i \in 1..Len(js) |-> DecodeItem(js[i]).val])
    ELSE Err(ErrorJson)

\* A Vec<Item> field under #[serde(default)]: empty when the key is absent.
DecodeItemsDefault(j, key) ==
    IF key \in DOMAIN j THEN DecodeItems(j[key]) ELSE Ok(<<>>)

\* Mylist (an entry of MylistsResponse.mylists)
DecodeMylist(j) ==
    IF HasKeys(j, {"id", "name", "itemsCount"})
       /\ DecodeItemsDefault(j, "sampleItems").kind = "Ok"
    THEN Ok([id |-> j["id"],
             name |-> j["name"],
             items_count |-> j["itemsCount"],
             sample_items |-> DecodeItemsDefault(j, "sampleItems").val])
    ELSE Err(ErrorJson)

\* MylistsResponse: mylists is #[serde(default)].
DecodeMylistsResponse(j) ==
    IF ~IsObject(j) THEN Err(ErrorJson)
    ELSE IF "mylists" \notin DOMAIN j THEN Ok([mylists |-> <<>>])
    ELSE IF \A i \in 1..Len(j["mylists"]) : DecodeMylist(j["mylists"][i]).kind = "Ok"
    THEN Ok([mylists |-> [i \in 1..Len(j["mylists"]) |->
                             DecodeMylist(j["mylists"][i]).val]])
    ELSE Err(ErrorJson)

\* MylistDetail: items is #[serde(default)].
DecodeMylistDetail(j) ==
    IF HasKeys(j, {"id", "name", "totalItemCount", "hasNext"})
       /\ DecodeItemsDefault(j, "items").kind = "Ok"
    THEN Ok([id |-> j["id"],
             name |-> j["name"],
             items |-> DecodeItemsDefault(j, "items").val,
             total_item_count |-> j["totalItemCount"],
             has_next |-> j["hasNext"]])
    ELSE Err(ErrorJson)

\* MylistResponse
DecodeMylistResponse(j) ==
    IF HasKeys(j, {"mylist"}) /\ DecodeMylistDetail(j["mylist"]).kind = "Ok"
    THEN Ok([mylist |-> DecodeMylistDetail(j["mylist"]).val])
    ELSE Err(ErrorJson)

\* NicoResult<T>: data is a T, not an Option<T>: a body without data, or with
\* data null, does not decode.
DecodeNicoResultMylist(j) ==
    IF HasKeys(j, {"meta", "data"})
       /\ DecodeNicoMeta(j["meta"]).kind = "Ok"
       /\ DecodeMylistResponse(j["data"]).kind = "Ok"
    THEN Ok([meta |-> DecodeNicoMeta(j["meta"]).val,
             data |-> DecodeMylistResponse(j["data"]).val])
    ELSE Err(ErrorJson)

DecodeNicoResultMylists(j) ==
    IF HasKeys(j, {"meta", "data"})
       /\ DecodeNicoMeta(j["meta"]).kind = "Ok"
       /\ DecodeMylistsResponse(j["data"]).kind = "Ok"
    THEN Ok([meta |-> DecodeNicoMeta(j["meta"]).val,
             data |-> DecodeMylistsResponse(j["data"]).val])
    ELSE Err(ErrorJson)

\* -------------------------------------------------------- serde: Serialize
\* rename(deserialize = ...) names the field for Deserialize only: Serialize
\* writes it under the rename_all = camelCase form of the Rust name.
EncodeNicoMeta(m) ==
    ("status" :> m.status)
    @@ ("errorCode" :> IF m.error_code.some THEN JStr(m.error_code.v) ELSE JNull)

EncodeVideo(v) ==
    ("videoType" :> v.video_type)
    @@ ("id" :> v.id)
    @@ ("registeredAt" :> v.registered_at)
    @@ ("n9d091f87" :> v.n_9d091f87)
    @@ ("nAcf68865" :> v.n_acf68865)

EncodeItem(it) ==
    ("itemId" :> it.item_id) @@ ("video" :> EncodeVideo(it.video))

EncodeItems(its) == [i \in 1..Len(its) |-> EncodeItem(its[i])]

EncodeMylist(m) ==
    ("id" :> m.id)
    @@ ("name" :> m.name)
    @@ ("itemsCount" :> m.items_count)
    @@ ("sampleItems" :> EncodeItems(m.sample_items))

EncodeMylistsResponse(r) ==
    ("mylists" :> [i \in 1..Len(r.mylists) |-> EncodeMylist(r.mylists[i])])

EncodeMylistDetail(d) ==
    ("id" :> d.id)
    @@ ("name" :> d.name)
    @@ ("items" :> EncodeItems(d.items))
    @@ ("totalItemCount" :> d.total_item_count)
    @@ ("hasNext" :> d.has_next)

EncodeMylistResponse(r) == ("mylist" :> EncodeMylistDetail(r.mylist))

EncodeNicoResultMylist(r) ==
    ("meta" :> EncodeNicoMeta(r.meta)) @@ ("data" :> EncodeMylistResponse(r.data))

EncodeNicoResultMylists(r) ==
    ("meta" :> EncodeNicoMeta(r.meta)) @@ ("data" :> EncodeMylistsResponse(r.data))

\* ------------------------------------------------------ the server's side
\* Bodies as they arrive on the wire.
VideoA ==
    ("type" :> "essential") @@ ("id" :> "sm9") @@ ("registeredAt" :> "t1")
    @@ ("9d091f87" :> TRUE) @@ ("acf68865" :> FALSE)
VideoB ==
    ("type" :> "essential") @@ ("id" :> "sm1") @@ ("registeredAt" :> "t2")
    @@ ("9d091f87" :> FALSE) @@ ("acf68865" :> TRUE)
ItemA == ("itemId" :> 1) @@ ("video" :> VideoA)
ItemB == ("itemId" :> 2) @@ ("video" :> VideoB)

MetaOk == ("status" :> 200)
MetaNotFound == ("status" :> 404) @@ ("errorCode" :> JStr("NOT_FOUND"))

\* The only mylist the callers of the model ask for.
MylistIds == {71381719}

\* What a page says about the mylist besides its items, and the items it
\* carries (present: whether the body has an items member at all).
DetailVariants == {[name |-> "a", total |-> 3], [name |-> "b", total |-> 5]}
ItemChoices ==
    {[present |-> FALSE, seq |-> <<>>],
     [present |-> TRUE, seq |-> <<ItemA>>],
     [present |-> TRUE, seq |-> <<ItemB, ItemA>>]}

DetailJson(v, has_next, its) ==
    LET base == ("id" :> 71381719) @@ ("name" :> v.name)
                @@ ("totalItemCount" :> v.total) @@ ("hasNext" :> has_next)
    IN  IF its.present THEN base @@ ("items" :> its.seq) ELSE base

PageBody(v, has_next, its) ==
    ("meta" :> MetaOk) @@ ("data" :> ("mylist" :> DetailJson(v, has_next, its)))

PageBodies ==
    {PageBody([name |-> "a", total |-> 3], h, its) : h \in BOOLEAN, its \in ItemChoices}
    \cup {PageBody(v, h, [present |-> TRUE, seq |-> <<ItemB, ItemA>>])
          : v \in DetailVariants, h \in BOOLEAN}

ErrorBody == ("meta" :> MetaNotFound)
\* A 200 body without a payload: data absent, data null.
NoDataBody == ("meta" :> MetaOk)
NullDataBody == ("meta" :> MetaOk) @@ ("data" :> JNull)
NoPayloadBodies == {NoDataBody, NullDataBody}

MylistJson(its) ==
    LET base == ("id" :> 71381719) @@ ("name" :> "a") @@ ("itemsCount" :> 3)
    IN  IF its.present THEN base @@ ("sampleItems" :> its.seq) ELSE base
MylistsBody(ms) == ("meta" :> MetaOk) @@ ("data" :> ("mylists" :> ms))
MylistsBodies ==
    {("meta" :> MetaOk) @@ ("data" :> <<>>)}
    \cup {MylistsBody(<<>>)}
    \cup {MylistsBody(<<MylistJson(its)>>) : its \in ItemChoices}
    \cup {MylistsBody(<<MylistJson(its), MylistJson(its)>>) : its \in ItemChoices}

\* What comes back for one invocation: the transport's outcome ("build": the
\* client could not be built, "send": send() failed, "text": the body could
\* not be read, "ok": status and body were read), the status, the body, and
\* the user_session a Set-Cookie header of the response carries, if any.
NoCookie == "-"
Raw(transport, status, body, set_cookie) ==
    [transport |-> transport, status |-> status, body |-> body,
     set_cookie |-> set_cookie]
BuildFailure == Raw("build", 0, NotJson, NoCookie)

FailureResponses ==
    {Raw("send", 0, NotJson, NoCookie),
     Raw("text", 200, NotJson, NoCookie),
     Raw("ok", 404, ErrorBody, NoCookie),
     Raw("ok", 404, NotJson, NoCookie),
     Raw("ok", 200, NotJson, NoCookie),
     Raw("ok", 200, ErrorBody, NoCookie)}

MylistResponses ==
    {Raw("ok", 200, b, NoCookie) : b \in PageBodies}
    \cup {Raw("ok", 200, PageBody([name |-> "a", total |-> 3], h,
                                  [present |-> TRUE, seq |-> <<ItemA>>]), "rotated")
          : h \in BOOLEAN}
    \cup {Raw("ok", s, PageBody([name |-> "a", total |-> 3], FALSE,
                                [present |-> TRUE, seq |-> <<ItemA>>]), NoCookie)
          : s \in {299, 300}}
    \cup {Raw("ok", 200, b, NoCookie) : b \in NoPayloadBodies}
    \cup FailureResponses

MylistsResponses ==
    {Raw("ok", s, b, NoCookie) : s \in {200, 299, 300}, b \in MylistsBodies}
    \cup {Raw("ok", 200, b, NoCookie) : b \in NoPayloadBodies}
    \cup FailureResponses

\* The responses of the interleaving study: a page with or without a
\* successor, with or without a rotated session cookie, and a send failure.
ConcResponses ==
    {Raw("send", 0, NotJson, NoCookie)}
    \cup {Raw("ok", 200, PageBody([name |-> "a", total |-> 3], h,
                                  [present |-> TRUE, seq |-> <<ItemA>>]), k)
          : h \in BOOLEAN, k \in {NoCookie, "rotated"}}

\* ------------------------------------------------------------------- state
\* Calls are the invocations of the crate's functions that a behaviour holds;
\* Jars the cookie stores (Arc<C>) the callers made for them.
Calls == {1, 2}
SoloCalls == {1}
Jars == {1, 2}
Unset == [unset |-> TRUE]

VARIABLES
    pc,            \* per call: "idle", "call", "await", "ret", "Done", "Failed"
    op,            \* per call: the function called
    args,          \* per call: the arguments of the HTTP function being run
    page,          \* get_mylist_all's loop variable (0: not yet declared)
    first_mylist,  \* get_mylist_all's first envelope
    extend_items,  \* get_mylist_all's accumulator
    ret,           \* what the HTTP function returned to its caller
    result,        \* what the call returned
    encoded,       \* the returned envelope serialized again by the caller
    cookie_store,  \* per call: the jar its Arc<C> points to
    jar,           \* per jar: the user_session cookie it holds
    net,           \* requests sent and not yet answered
    requests,      \* history, per call: the invocations of the HTTP functions
    wire,          \* history, per call: the requests put on the wire
    received,      \* history, per call: what came back for each invocation
    solo           \* history, per call: the cookie its own responses alone set

vars == <<pc, op, args, page, first_mylist, extend_items, ret, result, encoded,
          cookie_store, jar, net, requests, wire, received, solo>>

\* The caller's side of the tests: a jar per caller holding its user_session;
\* whether two calls are handed the same Arc is the callers' choice.
Init ==
    /\ pc = [c \in Calls |-> "idle"]
    /\ op = [c \in Calls |-> "none"]
    /\ args = [c \in Calls |-> Unset]
    /\ page = [c \in Calls |-> 0]
    /\ first_mylist = [c \in Calls |-> Unset]
    /\ extend_items = [c \in Calls |-> <<>>]
    /\ ret = [c \in Calls |-> Unset]
    /\ result = [c \in Calls |-> Unset]
    /\ encoded = [c \in Calls |-> Unset]
    /\ jar = [j \in Jars |-> IF j = 1 THEN "u1" ELSE "u2"]
    /\ cookie_store \in {f \in [Calls -> Jars] : f[1] = 1}
    /\ net = {}
    /\ requests = [c \in Calls |-> <<>>]
    /\ wire = [c \in Calls |-> <<>>]
    /\ received = [c \in Calls |-> <<>>]
    /\ solo = [c \in Calls |-> jar[cookie_store[c]]]

\* ------------------------------------------------- get_my_mylists, get_mylist
\* The URL the function formats from its arguments.
Url(o, a) ==
    IF o = "get_my_mylists"
    THEN [host |-> "nvapi.nicovideo.jp", path |-> "/v1/users/me/mylists",
          sampleItemCount |-> a.sample_item_count]
    ELSE [host |-> "nvapi.nicovideo.jp", path |-> "/v1/users/me/mylists/{id}",
          id |-> a.id, pageSize |-> a.page_size, page |-> a.page]

\* (bug) every client reads one global jar instead of its call's own store.
CookieFor_global(c) == jar[1]

\* The cookie the call's client sends: the one its cookie provider holds when
\* the request is built.
CookieFor(c) == jar[cookie_store[c]]

\* (bug) the comparison includes the last success status.
IsErrorStatus_inclusive(status_code) == status_code >= MaxSuccessStatus

\* The status check both functions make once the body has been read.
IsErrorStatus(status_code) == status_code > MaxSuccessStatus

\* From the point where the client is built to the returned value, given what
\* the transport and the server produce.
get_my_mylists(r) ==
    IF r.transport = "build" THEN Err(ErrorHttp("build"))
    ELSE IF r.transport = "send" THEN Err(ErrorHttp("send"))
    ELSE IF r.transport = "text" THEN Err(ErrorHttp("text"))
    ELSE IF IsErrorStatus(r.status)
    THEN IF DecodeNicoError(r.body).kind = "Ok"
         THEN Err(ErrorStatus(DecodeNicoError(r.body).val))
         ELSE Err(ErrorJson)
    ELSE DecodeNicoResultMylists(r.body)

\* (bug) a success body that does not decode is reported as a Status error
\* whenever it still decodes as an error envelope.
get_mylist_lenient(r) ==
    IF r.transport = "build" THEN Err(ErrorHttp("build"))
    ELSE IF r.transport = "send" THEN Err(ErrorHttp("send"))
    ELSE IF r.transport = "text" THEN Err(ErrorHttp("text"))
    ELSE IF IsErrorStatus(r.status) \/ DecodeNicoResultMylist(r.body).kind = "Err"
    THEN IF DecodeNicoError(r.body).kind = "Ok"
         THEN Err(ErrorStatus(DecodeNicoError(r.body).val))
         ELSE Err(ErrorJson)
    ELSE DecodeNicoResultMylist(r.body)

get_mylist(r) ==
    IF r.transport = "build" THEN Err(ErrorHttp("build"))
    ELSE IF r.transport = "send" THEN Err(ErrorHttp("send"))
    ELSE IF r.transport = "text" THEN Err(ErrorHttp("text"))
    ELSE IF IsErrorStatus(r.status)
    THEN IF DecodeNicoError(r.body).kind = "Ok"
         THEN Err(ErrorStatus(DecodeNicoError(r.body).val))
         ELSE Err(ErrorJson)
    ELSE DecodeNicoResultMylist(r.body)

Returned(o, r) == IF o = "get_my_mylists" THEN get_my_mylists(r) ELSE get_mylist(r)

\* The model's cap on a call's page counter.
WithinBound(c) == op[c] = "get_mylist_all" => args[c].page <= MaxPages

\* A caller calls get_my_mylists(cookie_store, n).
Call_get_my_mylists(c, n) ==
    /\ pc[c] = "idle"
    /\ op' = [op EXCEPT ![c] = "get_my_mylists"]
    /\ args' = [args EXCEPT ![c] = [sample_item_count |-> n]]
    /\ pc' = [pc EXCEPT ![c] = "call"]
    /\ UNCHANGED <<page, first_mylist, extend_items, ret, result, encoded,
                   cookie_store, jar, net, requests, wire, received, solo>>

\* A caller calls get_mylist(cookie_store, id, page_size, page).
Call_get_mylist(c, id, page_size, p) ==
    /\ pc[c] = "idle"
    /\ op' = [op EXCEPT ![c] = "get_mylist"]
    /\ args' = [args EXCEPT ![c] = [id |-> id, page_size |-> page_size, page |-> p]]
    /\ pc' = [pc EXCEPT ![c] = "call"]
    /\ UNCHANGED <<page, first_mylist, extend_items, ret, result, encoded,
                   cookie_store, jar, net, requests, wire, received, solo>>

\* The client cannot be built: the function returns before any request.
BuildFails(c) ==
    /\ pc[c] = "call"
    /\ WithinBound(c)
    /\ requests' = [requests EXCEPT ![c] = Append(@, Url(op[c], args[c]))]
    /\ received' = [received EXCEPT ![c] = Append(@, BuildFailure)]
    /\ ret' = [ret EXCEPT ![c] = Returned(op[c], BuildFailure)]
    /\ pc' = [pc EXCEPT ![c] = "ret"]
    /\ UNCHANGED <<op, args, page, first_mylist, extend_items, result, encoded,
                   cookie_store, jar, net, wire, solo>>

\* The client is built over the call's cookie store and the GET is sent with
\* the X-Frontend-Id header; the function awaits the response.
Send(c) ==
    /\ pc[c] = "call"
    /\ WithinBound(c)
    /\ requests' = [requests EXCEPT ![c] = Append(@, Url(op[c], args[c]))]
    /\ wire' = [wire EXCEPT ![c] =
                  Append(@, [url |-> Url(op[c], args[c]), frontend_id |-> "6",
                             cookie |-> CookieFor(c), alone |-> solo[c]])]
    /\ net' = net \cup {[call |-> c, url |-> Url(op[c], args[c]),
                         cookie |-> CookieFor(c)]}
    /\ pc' = [pc EXCEPT ![c] = "await"]
    /\ UNCHANGED <<op, args, page, first_mylist, extend_items, ret, result,
                   encoded, cookie_store, jar, received, solo>>

\* The response r arrives (or the transport fails): a Set-Cookie it carries
\* goes to the call's cookie store, and the function returns.
Receive(c, r) ==
    /\ pc[c] = "await"
    /\ net' = {m \in net : m.call # c}
    /\ jar' = IF r.set_cookie # NoCookie
              THEN [jar EXCEPT ![cookie_store[c]] = r.set_cookie]
              ELSE jar
    /\ solo' = IF r.set_cookie # NoCookie
               THEN [solo EXCEPT ![c] = r.set_cookie]
               ELSE solo
    /\ received' = [received EXCEPT ![c] = Append(@, r)]
    /\ ret' = [ret EXCEPT ![c] = Returned(op[c], r)]
    /\ pc' = [pc EXCEPT ![c] = "ret"]
    /\ UNCHANGED <<op, args, page, first_mylist, extend_items, result, encoded,
                   cookie_store, requests, wire>>

\* get_my_mylists or get_mylist, called directly, hands its value to the caller.
Return(c) ==
    /\ pc[c] = "ret"
    /\ op[c] \in {"get_my_mylists", "get_mylist"}
    /\ result' = [result EXCEPT ![c] = ret[c]]
    /\ pc' = [pc EXCEPT ![c] = IF ret[c].kind = "Ok" THEN "Done" ELSE "Failed"]
    /\ UNCHANGED <<op, args, page, first_mylist, extend_items, ret, encoded,
                   cookie_store, jar, net, requests, wire, received, solo>>

\* ------------------------------------------------------------ get_mylist_all
\* A caller calls get_mylist_all(cookie_store, id): page 1 is asked for.
Call_get_mylist_all(c, id) ==
    /\ pc[c] = "idle"
    /\ op' = [op EXCEPT ![c] = "get_mylist_all"]
    /\ args' = [args EXCEPT ![c] =
                  [id |-> id, page_size |-> PageSizeAll, page |-> FirstPage]]
    /\ pc' = [pc EXCEPT ![c] = "call"]
    /\ UNCHANGED <<page, first_mylist, extend_items, ret, result, encoded,
                   cookie_store, jar, net, requests, wire, received, solo>>

\* (bugs) the first page never ends the call; the loop ends after one turn;
\* the loop asks for the same page again; extend puts the new items in
\* front; the aggregate is given the last page's has_next.
FirstIsLast_never(first) == FALSE
LoopBreaks_always(next_mylist) == TRUE
NextPage_stays(p) == p
Extend_prepends(items, more) == more \o items
Aggregate_clears_next(first, extended) ==
    [first EXCEPT !.data.mylist.items = @ \o extended,
                  !.data.mylist.has_next = FALSE]

\* The test on the first page, the loop's exit test, its step, and the two
\* extends.
FirstIsLast(first) == ~first.data.mylist.has_next
LoopBreaks(next_mylist) == ~next_mylist.data.mylist.has_next
NextPage(p) == p + 1
Extend(items, more) == items \o more
Aggregate(first, extended) ==
    [first EXCEPT !.data.mylist.items = Extend(@, extended)]

\* Page 1 has returned: an error is returned as it is; without a next page the
\* first envelope is returned; otherwise the loop is entered at page 2.
AllFirst(c) ==
    /\ pc[c] = "ret"
    /\ op[c] = "get_mylist_all"
    /\ page[c] = 0
    /\ IF ret[c].kind = "Err"
       THEN /\ result' = [result EXCEPT ![c] = ret[c]]
            /\ pc' = [pc EXCEPT ![c] = "Failed"]
            /\ UNCHANGED <<args, page, first_mylist, extend_items>>
       ELSE IF FirstIsLast(ret[c].val)
       THEN /\ result' = [result EXCEPT ![c] = Ok(ret[c].val)]
            /\ first_mylist' = [first_mylist EXCEPT ![c] = ret[c].val]
            /\ pc' = [pc EXCEPT ![c] = "Done"]
            /\ UNCHANGED <<args, page, extend_items>>
       ELSE /\ first_mylist' = [first_mylist EXCEPT ![c] = ret[c].val]
            /\ page' = [page EXCEPT ![c] = SecondPage]
            /\ extend_items' = [extend_items EXCEPT ![c] = <<>>]
            /\ args' = [args EXCEPT ![c].page = SecondPage]
            /\ pc' = [pc EXCEPT ![c] = "call"]
            /\ UNCHANGED result
    /\ UNCHANGED <<op, ret, encoded, cookie_store, jar, net, requests, wire,
                   received, solo>>

\* (bug) an error inside the loop ends it like a last page: what was
\* accumulated so far is returned.
AllNext_partial(c) ==
    /\ pc[c] = "ret"
    /\ op[c] = "get_mylist_all"
    /\ page[c] >= SecondPage
    /\ IF ret[c].kind = "Err"
       THEN /\ first_mylist' = [first_mylist EXCEPT ![c] =
                                  Aggregate(@, extend_items[c])]
            /\ result' = [result EXCEPT ![c] =
                            Ok(Aggregate(first_mylist[c], extend_items[c]))]
            /\ pc' = [pc EXCEPT ![c] = "Done"]
            /\ UNCHANGED <<args, page, extend_items>>
       ELSE LET acc == Extend(extend_items[c], ret[c].val.data.mylist.items)
            IN  /\ extend_items' = [extend_items EXCEPT ![c] = acc]
                /\ IF LoopBreaks(ret[c].val)
                   THEN /\ first_mylist' = [first_mylist EXCEPT ![c] =
                                              Aggregate(@, acc)]
                        /\ result' = [result EXCEPT ![c] =
                                        Ok(Aggregate(first_mylist[c], acc))]
                        /\ pc' = [pc EXCEPT ![c] = "Done"]
                        /\ UNCHANGED <<args, page>>
                   ELSE /\ page' = [page EXCEPT ![c] = NextPage(@)]
                        /\ args' = [args EXCEPT ![c].page = NextPage(page[c])]
                        /\ pc' = [pc EXCEPT ![c] = "call"]
                        /\ UNCHANGED <<first_mylist, result>>
    /\ UNCHANGED <<op, ret, encoded, cookie_store, jar, net, requests, wire,
                   received, solo>>

\* A later page has returned: an error is returned as it is; otherwise its
\* items are accumulated and either the loop ends, with the first envelope
\* extended by the accumulator, or the next page is asked for.
AllNext(c) ==
    /\ pc[c] = "ret"
    /\ op[c] = "get_mylist_all"
    /\ page[c] >= SecondPage
    /\ IF ret[c].kind = "Err"
       THEN /\ result' = [result EXCEPT ![c] = ret[c]]
            /\ pc' = [pc EXCEPT ![c] = "Failed"]
            /\ UNCHANGED <<args, page, first_mylist, extend_items>>
       ELSE LET acc == Extend(extend_items[c], ret[c].val.data.mylist.items)
            IN  /\ extend_items' = [extend_items EXCEPT ![c] = acc]
                /\ IF LoopBreaks(ret[c].val)
                   THEN /\ first_mylist' = [first_mylist EXCEPT ![c] =
                                              Aggregate(@, acc)]
                        /\ result' = [result EXCEPT ![c] =
                                        Ok(Aggregate(first_mylist[c], acc))]
                        /\ pc' = [pc EXCEPT ![c] = "Done"]
                        /\ UNCHANGED <<args, page>>
                   ELSE /\ page' = [page EXCEPT ![c] = NextPage(@)]
                        /\ args' = [args EXCEPT ![c].page = NextPage(page[c])]
                        /\ pc' = [pc EXCEPT ![c] = "call"]
                        /\ UNCHANGED <<first_mylist, result>>
    /\ UNCHANGED <<op, ret, encoded, cookie_store, jar, net, requests, wire,
                   received, solo>>

\* --------------------------------------------------------------- the caller
\* The caller serializes the envelope it was returned (Serialize is derived
\* for every response type).
Encode(o, v) ==
    IF o = "get_my_mylists" THEN EncodeNicoResultMylists(v)
    ELSE EncodeNicoResultMylist(v)
Decode(o, j) ==
    IF o = "get_my_mylists" THEN DecodeNicoResultMylists(j)
    ELSE DecodeNicoResultMylist(j)

Reencode(c) ==
    /\ pc[c] = "Done"
    /\ encoded[c] = Unset
    /\ encoded' = [encoded EXCEPT ![c] = Encode(op[c], result[c].val)]
    /\ UNCHANGED <<pc, op, args, page, first_mylist, extend_items, ret, result,
                   cookie_store, jar, net, requests, wire, received, solo>>

\* ---------------------------------------------------------- specifications
ResponsesFor(o) == IF o = "get_my_mylists" THEN MylistsResponses ELSE MylistResponses

\* One call at a time, against every response of the server.
Next ==
    \E c \in SoloCalls :
        \/ \E n \in 0..MaxSample : Call_get_my_mylists(c, n)
        \/ \E id \in MylistIds, ps \in {PageSizeAll}, p \in 1..MaxDirectPage :
              Call_get_mylist(c, id, ps, p)
        \/ \E id \in MylistIds : Call_get_mylist_all(c, id)
        \/ BuildFails(c)
        \/ Send(c)
        \/ \E r \in ResponsesFor(op[c]) : Receive(c, r)
        \/ Return(c)
        \/ AllFirst(c)
        \/ AllNext(c)
        \/ Reencode(c)

Spec == Init /\ [][Next]_vars

\* The same, every request being answered and the task of the call being
\* polled until it returns.
FairSpec ==
    /\ Spec
    /\ \A c \in SoloCalls :
          /\ WF_vars(\E r \in ResponsesFor(op[c]) : Receive(c, r))
          /\ WF_vars(Send(c) \/ BuildFails(c))
          /\ WF_vars(AllFirst(c) \/ AllNext(c))

\* Two get_mylist_all calls whose steps interleave.
NextConc ==
    \E c \in Calls :
        \/ \E id \in MylistIds : Call_get_mylist_all(c, id)
        \/ Send(c)
        \/ \E r \in ConcResponses : Receive(c, r)
        \/ AllFirst(c)
        \/ AllNext(c)

SpecConc == Init /\ [][NextConc]_vars

\* ------------------------------------------------------------- vocabulary
IsAll(c) == op[c] = "get_mylist_all"
Terminated(c) == pc[c] \in {"Done", "Failed"}
Last(q) == q[Len(q)]

\* A success response for a mylist page: status and body were read, the
\* status is a success status and the body is a mylist envelope.
SuccessPage(r) ==
    /\ r.transport = "ok"
    /\ r.status <= MaxSuccessStatus
    /\ DecodeNicoResultMylist(r.body).kind = "Ok"
PageEnvelope(r) == DecodeNicoResultMylist(r.body).val
PageItems(r) == PageEnvelope(r).data.mylist.items
PageHasNext(r) == r.body["data"]["mylist"]["hasNext"]

\* A success response that carries no payload.
NoPayload(r) ==
    r.transport = "ok" /\ r.status <= MaxSuccessStatus /\ r.body \in NoPayloadBodies

\* The items of the pages rs, page after page.
RECURSIVE ConcatItems(_)
ConcatItems(rs) ==
    IF rs = <<>> THEN <<>> ELSE PageItems(Head(rs)) \o ConcatItems(Tail(rs))

\* The server answered pages 1..N of call c with success responses, hasNext
\* true on all but the last.
ServedPages(c, N) ==
    /\ IsAll(c)
    /\ Len(received[c]) = N
    /\ \A i \in 1..N : SuccessPage(received[c][i])
    /\ \A i \in 1..(N - 1) : PageHasNext(received[c][i])
    /\ ~PageHasNext(received[c][N])

\* The request of get_mylist_all for page i.
PageRequest(c, i) ==
    Url("get_mylist", [id |-> args[c].id, page_size |-> 100, page |-> i])

\* ------------------------------------------------------------------ claims
\* C1: when the server answers pages 1..N (N >= 2) of a mylist with success
\* responses, hasNext true on pages 1..N-1 and false on page N, get_mylist_all
\* issues exactly N requests, for (id, 100, i) with i = 1..N in that order,
\* and returns the concatenation of the pages' items in page order.
C1_Concatenation ==
    \A c \in Calls : \A N \in 2..(MaxPages + 1) :
        ServedPages(c, N) =>
            /\ Len(requests[c]) = N
            /\ \A i \in 1..N : requests[c][i] = PageRequest(c, i)
            /\ Len(wire[c]) = N
            /\ \A i \in 1..N : wire[c][i].url = PageRequest(c, i)
            /\ Terminated(c) =>
                  /\ pc[c] = "Done"
                  /\ result[c].kind = "Ok"
                  /\ result[c].val.data.mylist.items = ConcatItems(received[c])

C1_Witness ==
    \E c \in Calls :
        /\ ServedPages(c, 3)
        /\ pc[c] = "Done"
        /\ Len(PageItems(received[c][1])) = 1
        /\ Len(PageItems(received[c][2])) = 2
        /\ Len(result[c].val.data.mylist.items) = 4

\* C2: when page 1 is a success response whose hasNext is false,
\* get_mylist_all returns exactly that envelope, items unmodified, and issues
\* exactly one request, for page 1.
C2_SinglePage ==
    \A c \in Calls :
        (/\ IsAll(c)
         /\ Len(received[c]) >= 1
         /\ SuccessPage(received[c][1])
         /\ ~PageHasNext(received[c][1])) =>
            /\ requests[c] = <<PageRequest(c, 1)>>
            /\ Len(wire[c]) = 1
            /\ Len(received[c]) = 1
            /\ pc[c] \in {"ret", "Done"}
            /\ Terminated(c) => result[c] = Ok(PageEnvelope(received[c][1]))

C2_Witness ==
    \E c \in Calls :
        /\ IsAll(c)
        /\ pc[c] = "Done"
        /\ Len(received[c]) = 1
        /\ Len(result[c].val.data.mylist.items) = 2

\* C3: when the request for page k of get_mylist_all fails (transport, status
\* or decode error), the call fails with that same error: nothing of pages
\* 1..k-1 is returned, page k is not asked for again and no later page is
\* asked for, so exactly k requests are made.
C3_ErrorAborts ==
    \A c \in Calls :
        (/\ IsAll(c)
         /\ Len(received[c]) >= 1
         /\ ~SuccessPage(Last(received[c]))) =>
            /\ ret[c].kind = "Err"
            /\ Len(requests[c]) = Len(received[c])
            /\ \A i \in 1..Len(requests[c]) : requests[c][i] = PageRequest(c, i)
            /\ Len(wire[c]) <= Len(requests[c])
            /\ pc[c] \in {"ret", "Failed"}
            /\ Terminated(c) => result[c] = ret[c]

C3_Witness ==
    \E c \in Calls :
        /\ IsAll(c)
        /\ pc[c] = "Failed"
        /\ Len(received[c]) = 3
        /\ Len(extend_items[c]) > 0
        /\ result[c].err.type = "Status"

\* C4: once the body has been read, get_my_mylists and get_mylist never
\* return success for a status above 299: they fail with a Status error
\* carrying the decoded error envelope when the body decodes as one, and with
\* a decode error when it does not; for a status of 299 or lower they never
\* fail with a Status error and return the decoded success envelope or a
\* decode error.
C4_StatusDiscipline ==
    \A c \in Calls :
        (Len(received[c]) >= 1 /\ Last(received[c]).transport = "ok") =>
            LET r == Last(received[c])
                e == DecodeNicoError(r.body)
            IN  IF r.status > 299
                THEN /\ ret[c].kind = "Err"
                     /\ e.kind = "Ok" =>
                           /\ ret[c].err.type = "Status"
                           /\ ret[c].err.err.meta.status = r.body["meta"]["status"]
                           /\ ret[c].err.err = e.val
                     /\ e.kind = "Err" => ret[c].err = ErrorJson
                ELSE /\ ret[c].kind = "Err" => ret[c].err = ErrorJson
                     /\ ret[c].kind = "Ok" => ret[c] = Decode(op[c], r.body)
                     /\ Decode(op[c], r.body).kind = "Ok" => ret[c].kind = "Ok"

C4_Witness ==
    \E c \in Calls :
        /\ op[c] = "get_my_mylists"
        /\ pc[c] = "Failed"
        /\ Last(received[c]).status = 404
        /\ result[c] = Err(ErrorStatus([meta |-> [status |-> 404,
                                                  error_code |-> Some("NOT_FOUND")]]))

\* C5, as the spec states it: a success response without a payload on page k
\* of get_mylist_all is the end of the data, not an error: the call ends in
\* Done and no request for page k+1 is issued.
C5_NoPayloadEndsData ==
    \A c \in Calls :
        (/\ IsAll(c)
         /\ Len(received[c]) >= 1
         /\ NoPayload(Last(received[c]))
         /\ Terminated(c)) =>
            /\ pc[c] = "Done"
            /\ Len(requests[c]) = Len(received[c])

\* C5, as the code has it: a success response without a payload on page k
\* does not decode (NicoResult.data is not optional): the call fails with the
\* decode error, returns no aggregate, and no request for page k+1 is issued.
C5_NoPayloadFails ==
    \A c \in Calls :
        (/\ IsAll(c)
         /\ Len(received[c]) >= 1
         /\ NoPayload(Last(received[c]))) =>
            /\ ret[c] = Err(ErrorJson)
            /\ Len(requests[c]) = Len(received[c])
            /\ pc[c] \in {"ret", "Failed"}
            /\ Terminated(c) => result[c] = Err(ErrorJson)

C5_Witness ==
    \E c \in Calls :
        /\ IsAll(c)
        /\ pc[c] = "Failed"
        /\ Len(received[c]) = 2
        /\ Last(received[c]).body = NullDataBody

\* C6: a decoded success envelope, serialized again, carries Video's type and
\* the two hash-named booleans under their wire names, and decodes again to
\* an equal value.
C6_RoundTrip ==
    \A c \in Calls :
        encoded[c] # Unset =>
            /\ Decode(op[c], encoded[c]) = Ok(result[c].val)
            /\ op[c] # "get_my_mylists" =>
                  \A i \in 1..Len(encoded[c]["data"]["mylist"]["items"]) :
                      {"type", "9d091f87", "acf68865"} \subseteq
                          DOMAIN encoded[c]["data"]["mylist"]["items"][i]["video"]

\* C7, as the spec states it: whatever the interleaving of two calls, each
\* call sends on every request the credential it would have sent had it run
\* alone.
C7_NoInterference ==
    \A c \in Calls : \A i \in 1..Len(wire[c]) :
        wire[c][i].cookie = wire[c][i].alone

\* C7, as the code has it: the call builds its own client but over the cookie
\* store the caller hands it; two calls handed distinct stores send on every
\* request the credential they would have sent alone, and what is in flight
\* for a call carries its own store's cookie.
C7_DistinctStores ==
    cookie_store[1] # cookie_store[2] =>
        /\ \A c \in Calls : \A i \in 1..Len(wire[c]) :
              wire[c][i].cookie = wire[c][i].alone
        /\ \A c \in Calls : jar[cookie_store[c]] = solo[c]
        /\ \A m \in net : m.cookie = solo[m.call]

C7_Witness ==
    /\ cookie_store[1] # cookie_store[2]
    /\ Len(wire[1]) = 2 /\ wire[1][2].cookie = "rotated"
    /\ Len(wire[2]) = 2 /\ wire[2][2].cookie = "u2"
    /\ Cardinality(net) = 2

\* C8: within one get_mylist_all call at most one request is in flight, the
\* request for page n+1 is issued only after the response for page n has been
\* received and decoded, and page numbers go up by exactly 1.
C8_Sequential ==
    \A c \in Calls :
        IsAll(c) =>
            /\ Cardinality({m \in net : m.call = c}) <= 1
            /\ Len(requests[c]) <= Len(received[c]) + 1
            /\ (\E m \in net : m.call = c) <=> pc[c] = "await"
            /\ pc[c] = "await" => Len(received[c]) = Len(requests[c]) - 1
            /\ \A i \in 1..(Len(requests[c]) - 1) :
                  requests[c][i + 1].page = requests[c][i].page + 1

C8_Witness ==
    \E c \in Calls :
        /\ IsAll(c)
        /\ pc[c] = "await"
        /\ Len(requests[c]) = 3
        /\ Len(received[c]) = 2

\* C9: the aggregate is the page-1 envelope with only its items extended:
\* meta and the other fields of the detail are page 1's, those of later pages
\* are dropped, and has_next is still true when more than one page was
\* fetched.
C9_FirstEnvelopeKept ==
    \A c \in Calls :
        (IsAll(c) /\ pc[c] = "Done") =>
            LET first == PageEnvelope(received[c][1])
                v == result[c].val
            IN  /\ v.meta = first.meta
                /\ [v EXCEPT !.data.mylist.items = first.data.mylist.items] = first
                /\ Len(received[c]) > 1 => v.data.mylist.has_next

C9_Witness ==
    \E c \in Calls :
        /\ IsAll(c)
        /\ pc[c] = "Done"
        /\ Len(received[c]) = 2
        /\ PageEnvelope(received[c][2]).data.mylist.name = "b"
        /\ PageEnvelope(received[c][2]).data.mylist.total_item_count = 5
        /\ result[c].val.data.mylist.name = "a"

\* Some page of call c came back as an error or without a next page.
TerminalSeen(c) ==
    \E i \in 1..Len(received[c]) :
        ~(SuccessPage(received[c][i]) /\ PageHasNext(received[c][i]))

\* C10: get_mylist_all has no page limit of its own: every request being
\* answered, the call returns if and only if some page comes back as an error
\* or with hasNext false; as long as every page comes back a success with
\* hasNext true it asks for the next page and does not return.
C10_ReturnsIffTerminalPage ==
    \A c \in SoloCalls :
        /\ []((IsAll(c) /\ Terminated(c)) => TerminalSeen(c))
        /\ (IsAll(c) /\ TerminalSeen(c)) ~> Terminated(c)
        /\ \A n \in 1..(MaxPages - 1) :
              (IsAll(c) /\ Len(received[c]) = n /\ ~TerminalSeen(c))
                  ~> (Len(requests[c]) = n + 1 /\ Last(requests[c]).page = n + 1)

C10_Witness ==
    \E c \in SoloCalls :
        /\ IsAll(c)
        /\ Len(received[c]) = MaxPages
        /\ ~TerminalSeen(c)
        /\ pc[c] = "call"
        /\ args[c].page = MaxPages + 1

====
